---- MODULE Spec2Model ----
(***************************************************************************)
(* Model of the asynchronous message-wait future of async-messages         *)
(* (src/src/msg_future.rs): the owner thread that creates, polls and drops *)
(* the future, the thread-pool callback that runs wait_done on a worker    *)
(* thread, and the parts of the operating system the code talks to (the    *)
(* thread's message queue, its wake mask and input event, the pool wait).  *)
(***************************************************************************)
EXTENDS Integers, Sequences, FiniteSets, TLC

(* ------------------------------ bounds --------------------------------- *)

\* How many times the owner polls the future at most.
MaxPolls == 3
\* How many messages other threads post at most.
MaxPosts == 2

(* ----------------------- constants of the program ---------------------- *)

MWMO_WAITALL == 1
MWMO_ALERTABLE == 2
MWMO_QUEUEATTACH == 8
\* Two queue-status bits (message categories) a message can belong to.
QS_POSTMESSAGE == 8
QS_TIMER == 16
\* 2^16: the first value a u16 cannot hold.
U16Limit == 65536

MsgKinds == {QS_POSTMESSAGE, QS_TIMER}
\* The u32 arguments callers hand to wait_for_messages.
QsfInputs == {QS_POSTMESSAGE, QS_TIMER, U16Limit}
WfInputs == {0, MWMO_WAITALL, MWMO_ALERTABLE, MWMO_QUEUEATTACH, U16Limit + MWMO_QUEUEATTACH}

\* InputEventFutureState
NotPending == "NotPending"
Pending == "Pending"
Ready == "Ready"
Cancelled == "Cancelled"

(* ------------------------------ helpers -------------------------------- *)

RECURSIVE BitAnd(_, _)
\* Bitwise and of two naturals.
BitAnd(a, b) ==
    IF a = 0 \/ b = 0 THEN 0
    ELSE (IF a % 2 = 1 /\ b % 2 = 1 THEN 1 ELSE 0) + 2 * BitAnd(a \div 2, b \div 2)

\* make_dword: (low as u32) | ((high as u32) << 16)
make_dword(low, high) == low + high * U16Limit

\* u32 -> u16 try_into succeeds
FitsU16(v) == v < U16Limit

LowWord(w) == w % U16Limit

\* The queue-status bits of the queued messages: the union of their categories.
QueueBits(q) ==
    (IF \E i \in 1..Len(q) : q[i] = QS_POSTMESSAGE THEN QS_POSTMESSAGE ELSE 0)
  + (IF \E i \in 1..Len(q) : q[i] = QS_TIMER THEN QS_TIMER ELSE 0)

\* NtUserGetQueueStatusReadonly: the queued bits selected by the word's wake mask.
QueueStatus(q, word) == BitAnd(QueueBits(q), LowWord(word))

(* ------------------------------- state --------------------------------- *)

VARIABLES
    fpc,                 \* position of the owner thread
    queue_status_flags,  \* InputEventFuture.queue_status_flags
    wait_flags,          \* InputEventFuture.wait_flags
    input_event,         \* InputEventFuture.input_event is Some
    ptp_wait,            \* InputEventFuture.ptp_wait holds the wait object
    wait,                \* poll's local `wait` holds the wait object
    cx,                  \* the waker of the poll in progress (0: none)
    state,               \* shared.state
    waker_in_use,        \* shared.waker_in_use
    waker,               \* shared.waker (0: None)
    sharedFreed,         \* the future's memory, shared state included, is released
    waitObj,             \* the pool wait object: "none", "open", "closed"
    waitRegistered,      \* the pool wait is armed on the input event
    cbpc,                \* position of the pool callback
    old_state,           \* wait_done's old_state ("none" before the swap)
    queue,               \* the thread's message queue
    wakeMask,            \* the thread's wake-mask word (0: cleared)
    inputEventSignalled, \* the thread's input event is signalled
    packetAssociated,    \* the queue's event-completion packet is associated
    oslog,               \* the OS calls made so far, <<name, succeeded>>
    wakeLog,             \* the wakers invoked so far
    crashed,             \* the callback faulted on released memory
    panicked,            \* an unwrap of a failed clear_wake_mask panicked
    pollNo,              \* polls started so far
    pollResults,         \* what each finished poll returned
    probed,              \* the status the queue-status probe returned (-1: no probe yet)
    wakesAtPollStart,    \* Len(wakeLog) when the poll in progress started
    dropCas,             \* outcome of drop's CAS: "none", "ok", "failed"
    dropState,           \* shared.state when drop began ("none" before)
    args,                \* the arguments wait_for_messages was called with
    posts,               \* messages posted so far
    postedAfterPending,  \* a matching message arrived after the first poll returned pending
    everSignalled,       \* the input event has been signalled since it was acquired
    signalledBeforeCas,  \* the event was signalled between the arming and the CAS of poll
    yielded,             \* the messages the drain iterator has returned
    iterDone,            \* the drain iterator has returned None
    iterStart,           \* <<queue, posts>> at the iterator's first next() (<<>> before)
    iteration,           \* the iteration of the message loop that is running
    quitIter,            \* the loop iteration by whose end the quit message was posted (0: none)
    swapInRepoll         \* the latest poll (its number), if the callback swapped the state
                         \* between its load of Pending and its store of the waker (else 0)

futVars == <<queue_status_flags, wait_flags, input_event, ptp_wait, wait, cx>>
sharedVars == <<state, waker_in_use, waker, sharedFreed>>
poolVars == <<waitObj, waitRegistered, cbpc, old_state>>
osVars == <<queue, wakeMask, inputEventSignalled, packetAssociated, oslog>>
outVars == <<wakeLog, crashed, panicked>>
pollHist == <<pollNo, pollResults, probed, wakesAtPollStart>>
dropHist == <<dropCas, dropState>>
envHist == <<args, posts, postedAfterPending, everSignalled, signalledBeforeCas>>
iterVars == <<yielded, iterDone, iterStart>>
loopVars == <<iteration, quitIter>>
raceHist == <<swapInRepoll>>

vars == <<fpc, futVars, sharedVars, poolVars, osVars, outVars, pollHist, dropHist, envHist,
          iterVars, loopVars, raceHist>>

Log(name, ok) == oslog' = Append(oslog, <<name, ok>>)

Init ==
    /\ fpc = "start"
    /\ queue_status_flags = 0
    /\ wait_flags = 0
    /\ input_event = FALSE
    /\ ptp_wait = FALSE
    /\ wait = FALSE
    /\ cx = 0
    /\ state = NotPending
    /\ waker_in_use = FALSE
    /\ waker = 0
    /\ sharedFreed = FALSE
    /\ waitObj = "none"
    /\ waitRegistered = FALSE
    /\ cbpc = "idle"
    /\ old_state = "none"
    /\ queue = <<>>
    /\ wakeMask = 0
    /\ inputEventSignalled = FALSE
    /\ packetAssociated = TRUE
    /\ oslog = <<>>
    /\ wakeLog = <<>>
    /\ crashed = FALSE
    /\ panicked = FALSE
    /\ pollNo = 0
    /\ pollResults = <<>>
    /\ probed = -1
    /\ wakesAtPollStart = 0
    /\ dropCas = "none"
    /\ dropState = "none"
    /\ args = <<>>
    /\ posts = 0
    /\ postedAfterPending = FALSE
    /\ everSignalled = FALSE
    /\ signalledBeforeCas = FALSE
    /\ yielded = <<>>
    /\ iterDone = FALSE
    /\ iterStart = <<>>
    /\ iteration = 1
    /\ quitIter = 0
    /\ swapInRepoll = 0

(* --------------------------- wait_for_messages ------------------------- *)

\* Variant: only the alertable bit is rejected.
RejectedWaitFlags_alertableOnly(w) == BitAnd(w, MWMO_ALERTABLE) /= 0

\* wait_flags.0 & (MWMO_ALERTABLE.0 | MWMO_WAITALL.0) != 0
RejectedWaitFlags(w) == BitAnd(w, MWMO_ALERTABLE + MWMO_WAITALL) /= 0

\* The arguments wait_for_messages accepts.
ValidArgs(q, w) == ~RejectedWaitFlags(w) /\ FitsU16(q) /\ FitsU16(w)

\* wait_for_messages: validate the flags, then InputEventFuture::new.
wait_for_messages ==
    /\ fpc = "start"
    /\ \E q \in QsfInputs, w \in WfInputs :
        /\ args' = <<q, w>>
        /\ IF ValidArgs(q, w)
           THEN /\ fpc' = "idle"
                /\ queue_status_flags' = q
                /\ wait_flags' = w
           ELSE /\ fpc' = "invalid"
                /\ UNCHANGED <<queue_status_flags, wait_flags>>
    /\ UNCHANGED <<input_event, ptp_wait, wait, cx>>
    /\ UNCHANGED <<posts, postedAfterPending, everSignalled, signalledBeforeCas>>
    /\ UNCHANGED <<sharedVars, poolVars, osVars, outVars, pollHist, dropHist>>
    /\ UNCHANGED iterVars
    /\ UNCHANGED loopVars
    /\ UNCHANGED raceHist

(* ------------------------------ the queue ------------------------------ *)

\* Does a message of category `kind` match the wake-mask word?
Matches(kind, word) == BitAnd(kind, LowWord(word)) /= 0

\* Another thread posts a message to the owner thread's queue; the OS signals
\* the input event when the message matches the thread's wake mask.
PostMessage ==
    /\ posts < MaxPosts
    /\ fpc /= "invalid"
    /\ \E kind \in MsgKinds :
        /\ queue' = Append(queue, kind)
        /\ IF Matches(kind, wakeMask)
           THEN /\ inputEventSignalled' = TRUE
                /\ everSignalled' = TRUE
                /\ signalledBeforeCas' = (signalledBeforeCas \/ fpc = "p_cas")
                /\ postedAfterPending' =
                     (postedAfterPending \/
                        (Len(pollResults) >= 1 /\ pollResults[1] = "pending"))
           ELSE UNCHANGED <<inputEventSignalled, everSignalled, postedAfterPending,
                            signalledBeforeCas>>
    /\ posts' = posts + 1
    /\ UNCHANGED args
    /\ UNCHANGED <<fpc, futVars, sharedVars, poolVars, outVars, pollHist, dropHist>>
    /\ UNCHANGED <<wakeMask, packetAssociated, oslog>>
    /\ UNCHANGED iterVars
    /\ UNCHANGED loopVars
    /\ UNCHANGED raceHist

(* ----------------------- ConfiguredInputEvent -------------------------- *)

\* ConfiguredInputEvent::new succeeded: NtUserGetInputEvent installed the
\* wake-mask word (the event is signalled at once when matching input is
\* already queued), then NtUserCancelQueueEventCompletionPacket is called and
\* its result discarded (the entry point may be missing).
ConfiguredInputEvent_new(word) ==
    /\ wakeMask' = word
    /\ inputEventSignalled' = (QueueStatus(queue, word) /= 0)
    /\ everSignalled' = (QueueStatus(queue, word) /= 0)
    /\ \E found \in BOOLEAN :
         /\ packetAssociated' = (IF found THEN FALSE ELSE packetAssociated)
         /\ oslog' = oslog \o << <<"GetInputEvent", TRUE>>, <<"CancelPacket", found>> >>

\* Variant: the destructor reassociates the packet and never clears the mask.
ConfiguredInputEvent_drop_noClear(ok) ==
    /\ UNCHANGED <<wakeMask, panicked>>
    /\ packetAssociated' = TRUE
    /\ oslog' = Append(oslog, <<"ReassociatePacket", TRUE>>)

\* Variant: the destructor reassociates the packet before it clears the mask.
ConfiguredInputEvent_drop_reassociateFirst(ok) ==
    /\ wakeMask' = (IF ok THEN 0 ELSE wakeMask)
    /\ \E found \in BOOLEAN :
         /\ packetAssociated' = (IF found THEN TRUE ELSE packetAssociated)
         /\ oslog' = oslog \o << <<"ReassociatePacket", found>>, <<"ClearWakeMask", ok>> >>
    /\ panicked' = (panicked \/ ~ok)

\* Drop for ConfiguredInputEvent: NtUserClearWakeMask().unwrap(), then the
\* reassociate whose result is discarded. A failed clear panics before the
\* reassociate.
ConfiguredInputEvent_drop(ok) ==
    /\ wakeMask' = (IF ok THEN 0 ELSE wakeMask)
    /\ \E found \in BOOLEAN :
         /\ packetAssociated' = (IF ok /\ found THEN TRUE ELSE packetAssociated)
         /\ oslog' = (IF ok
                      THEN oslog \o << <<"ClearWakeMask", TRUE>>, <<"ReassociatePacket", found>> >>
                      ELSE Append(oslog, <<"ClearWakeMask", FALSE>>))
    /\ panicked' = (panicked \/ ~ok)

(* ------------------------- InputEventFuture::poll ---------------------- *)

\* What the last finished poll returned ("none" before the first).
LastResult == IF pollResults = <<>> THEN "none" ELSE pollResults[Len(pollResults)]

\* The future may be polled: it exists and has not completed.
Pollable ==
    /\ fpc = "idle"
    /\ pollNo < MaxPolls
    /\ LastResult \in {"none", "pending"}

\* poll returns `r`.
PollReturn(r) ==
    /\ fpc' = "idle"
    /\ pollResults' = Append(pollResults, r)
    /\ cx' = 0

\* Variant: a Pending future is taken for a ready one.
LoadedReady_orPending(s) == s \in {Ready, Pending}

\* Variant: the load is compared with the wrong state.
LoadedReady_wrongState(s) == s = Cancelled

\* state == Ready: the poll resolves through ready()
LoadedReady(s) == s = Ready

\* state == Pending: the poll refreshes the waker
LoadedPending(s) == s = Pending

\* poll begins with a fresh waker and loads shared.state.
poll_load ==
    /\ Pollable
    /\ pollNo' = pollNo + 1
    /\ cx' = pollNo + 1
    /\ wakesAtPollStart' = Len(wakeLog)
    /\ fpc' = (IF LoadedReady(state) THEN "p_ready_event"
               ELSE IF LoadedPending(state) THEN "p_trylock"
               ELSE "p_probe")
    /\ UNCHANGED <<queue_status_flags, wait_flags, input_event, ptp_wait, wait>>
    /\ UNCHANGED <<pollResults, probed>>
    /\ UNCHANGED <<sharedVars, poolVars, osVars, outVars, dropHist, envHist>>
    /\ UNCHANGED iterVars
    /\ UNCHANGED loopVars
    /\ swapInRepoll' = 0

\* Re-poll while Pending: waker_in_use.compare_exchange(false, true).
poll_trylock ==
    /\ fpc = "p_trylock"
    /\ IF ~waker_in_use
       THEN /\ waker_in_use' = TRUE
            /\ fpc' = "p_store"
            /\ UNCHANGED <<pollResults, cx>>
       ELSE \* the callback is using the old waker: return without replacing it
            /\ PollReturn("pending")
            /\ UNCHANGED waker_in_use
    /\ UNCHANGED <<queue_status_flags, wait_flags, input_event, ptp_wait, wait>>
    /\ UNCHANGED <<state, waker, sharedFreed>>
    /\ UNCHANGED <<pollNo, probed, wakesAtPollStart>>
    /\ UNCHANGED <<poolVars, osVars, outVars, dropHist, envHist>>
    /\ UNCHANGED iterVars
    /\ UNCHANGED loopVars
    /\ UNCHANGED raceHist

\* this.shared.waker = Some(cx.waker().clone())
poll_store ==
    /\ fpc = "p_store"
    /\ waker' = cx
    /\ fpc' = "p_unlock"
    /\ UNCHANGED <<futVars, state, waker_in_use, sharedFreed>>
    /\ UNCHANGED <<poolVars, osVars, outVars, pollHist, dropHist, envHist>>
    /\ UNCHANGED iterVars
    /\ UNCHANGED loopVars
    /\ UNCHANGED raceHist

\* Variant: the poll returns pending without releasing waker_in_use.
poll_unlock_keepFlag ==
    /\ fpc = "p_unlock"
    /\ UNCHANGED waker_in_use
    /\ PollReturn("pending")
    /\ UNCHANGED <<queue_status_flags, wait_flags, input_event, ptp_wait, wait>>
    /\ UNCHANGED <<state, waker, sharedFreed>>
    /\ UNCHANGED <<pollNo, probed, wakesAtPollStart>>
    /\ UNCHANGED <<poolVars, osVars, outVars, dropHist, envHist>>
    /\ UNCHANGED iterVars
    /\ UNCHANGED loopVars
    /\ UNCHANGED raceHist

\* this.shared.waker_in_use.store(false); return Poll::Pending
poll_unlock ==
    /\ fpc = "p_unlock"
    /\ waker_in_use' = FALSE
    /\ PollReturn("pending")
    /\ UNCHANGED <<queue_status_flags, wait_flags, input_event, ptp_wait, wait>>
    /\ UNCHANGED <<state, waker, sharedFreed>>
    /\ UNCHANGED <<pollNo, probed, wakesAtPollStart>>
    /\ UNCHANGED <<poolVars, osVars, outVars, dropHist, envHist>>
    /\ UNCHANGED iterVars
    /\ UNCHANGED loopVars
    /\ UNCHANGED raceHist

\* Variant: only the high half of the status word is tested.
FastPath_highHalf(status) == status \div U16Limit > 0

\* queue_status > 0: messages are already in the queue
FastPath(status) == status > 0

\* First poll: probe the queue status; a failed probe is returned, a nonzero
\* status resolves the future at once.
poll_probe ==
    /\ fpc = "p_probe"
    /\ \E ok \in BOOLEAN :
        /\ Log("GetQueueStatus", ok)
        /\ IF ~ok
           THEN PollReturn("error") /\ UNCHANGED probed
           ELSE /\ probed' = QueueStatus(queue, make_dword(queue_status_flags, wait_flags))
                /\ IF FastPath(probed')
                   THEN PollReturn("ready")
                   ELSE fpc' = "p_create" /\ UNCHANGED <<pollResults, cx>>
    /\ UNCHANGED <<queue_status_flags, wait_flags, input_event, ptp_wait, wait>>
    /\ UNCHANGED <<pollNo, wakesAtPollStart>>
    /\ UNCHANGED <<queue, wakeMask, inputEventSignalled, packetAssociated>>
    /\ UNCHANGED <<sharedVars, poolVars, outVars, dropHist, envHist>>
    /\ UNCHANGED iterVars
    /\ UNCHANGED loopVars
    /\ UNCHANGED raceHist

\* CreateThreadpoolWait(Some(Self::callback), Some(&raw mut this.shared), None)?
poll_create ==
    /\ fpc = "p_create"
    /\ \E ok \in BOOLEAN :
        /\ Log("CreateThreadpoolWait", ok)
        /\ IF ok
           THEN /\ wait' = TRUE
                /\ waitObj' = "open"
                /\ fpc' = "p_event"
                /\ UNCHANGED <<pollResults, cx>>
           ELSE /\ PollReturn("error")
                /\ UNCHANGED <<wait, waitObj>>
    /\ UNCHANGED <<queue_status_flags, wait_flags, input_event, ptp_wait>>
    /\ UNCHANGED <<pollNo, probed, wakesAtPollStart>>
    /\ UNCHANGED <<waitRegistered, cbpc, old_state>>
    /\ UNCHANGED <<queue, wakeMask, inputEventSignalled, packetAssociated>>
    /\ UNCHANGED <<sharedVars, outVars, dropHist, envHist>>
    /\ UNCHANGED iterVars
    /\ UNCHANGED loopVars
    /\ UNCHANGED raceHist

\* this.input_event = Some(ConfiguredInputEvent::new(..)?); on the error return
\* the local `wait` is dropped, which closes the wait object.
poll_event ==
    /\ fpc = "p_event"
    /\ \E ok \in BOOLEAN :
        IF ok
        THEN /\ ConfiguredInputEvent_new(make_dword(queue_status_flags, wait_flags))
             /\ input_event' = TRUE
             /\ fpc' = "p_attach"
             /\ UNCHANGED <<pollResults, cx, wait, waitObj>>
        ELSE /\ oslog' = oslog \o << <<"GetInputEvent", FALSE>>, <<"CloseThreadpoolWait", TRUE>> >>
             /\ wait' = FALSE
             /\ waitObj' = "closed"
             /\ PollReturn("error")
             /\ UNCHANGED <<input_event, wakeMask, inputEventSignalled, packetAssociated,
                            everSignalled>>
    /\ UNCHANGED <<queue_status_flags, wait_flags, ptp_wait>>
    /\ UNCHANGED <<pollNo, probed, wakesAtPollStart>>
    /\ UNCHANGED <<waitRegistered, cbpc, old_state>>
    /\ UNCHANGED <<queue, args, posts, postedAfterPending, signalledBeforeCas>>
    /\ UNCHANGED <<sharedVars, outVars, dropHist>>
    /\ UNCHANGED iterVars
    /\ UNCHANGED loopVars
    /\ UNCHANGED raceHist

\* self.queue_status_flags & (MWMO_QUEUEATTACH.0 as u16) != 0
QueueAttachTest(q, w) == BitAnd(q, MWMO_QUEUEATTACH) /= 0

\* Variant: a failed NtUserSetWaitForQueueAttach is swallowed and the poll goes
\* on to arm the wait.
poll_attach_ignoreError ==
    /\ fpc = "p_attach"
    /\ IF QueueAttachTest(queue_status_flags, wait_flags)
       THEN \E ok \in BOOLEAN : Log("SetWaitForQueueAttach", ok)
       ELSE UNCHANGED oslog
    /\ fpc' = "p_install"
    /\ UNCHANGED <<pollResults, cx, wait, waitObj>>
    /\ UNCHANGED <<queue_status_flags, wait_flags, input_event, ptp_wait>>
    /\ UNCHANGED <<pollNo, probed, wakesAtPollStart>>
    /\ UNCHANGED <<waitRegistered, cbpc, old_state>>
    /\ UNCHANGED <<queue, wakeMask, inputEventSignalled, packetAssociated>>
    /\ UNCHANGED <<sharedVars, outVars, dropHist, envHist>>
    /\ UNCHANGED iterVars
    /\ UNCHANGED loopVars
    /\ UNCHANGED raceHist

\* NtUserSetWaitForQueueAttach(true)? when the test above holds.
poll_attach ==
    /\ fpc = "p_attach"
    /\ IF QueueAttachTest(queue_status_flags, wait_flags)
       THEN \E ok \in BOOLEAN :
              IF ok
              THEN /\ Log("SetWaitForQueueAttach", TRUE)
                   /\ fpc' = "p_install"
                   /\ UNCHANGED <<pollResults, cx, wait, waitObj>>
              ELSE /\ oslog' = oslog \o << <<"SetWaitForQueueAttach", FALSE>>,
                                           <<"CloseThreadpoolWait", TRUE>> >>
                   /\ wait' = FALSE
                   /\ waitObj' = "closed"
                   /\ PollReturn("error")
       ELSE /\ fpc' = "p_install"
            /\ UNCHANGED <<pollResults, cx, wait, waitObj, oslog>>
    /\ UNCHANGED <<queue_status_flags, wait_flags, input_event, ptp_wait>>
    /\ UNCHANGED <<pollNo, probed, wakesAtPollStart>>
    /\ UNCHANGED <<waitRegistered, cbpc, old_state>>
    /\ UNCHANGED <<queue, wakeMask, inputEventSignalled, packetAssociated>>
    /\ UNCHANGED <<sharedVars, outVars, dropHist, envHist>>
    /\ UNCHANGED iterVars
    /\ UNCHANGED loopVars
    /\ UNCHANGED raceHist

\* Variant: the wait is moved into the future but no waker is stored.
poll_install_noWaker ==
    /\ fpc = "p_install"
    /\ ptp_wait' = TRUE
    /\ wait' = FALSE
    /\ fpc' = "p_arm"
    /\ UNCHANGED <<queue_status_flags, wait_flags, input_event, cx>>
    /\ UNCHANGED <<state, waker_in_use, waker, sharedFreed>>
    /\ UNCHANGED <<poolVars, osVars, outVars, pollHist, dropHist, envHist>>
    /\ UNCHANGED iterVars
    /\ UNCHANGED loopVars
    /\ UNCHANGED raceHist

\* this.shared.waker = Some(cx.waker().clone()); this.ptp_wait = wait
poll_install ==
    /\ fpc = "p_install"
    /\ waker' = cx
    /\ ptp_wait' = TRUE
    /\ wait' = FALSE
    /\ fpc' = "p_arm"
    /\ UNCHANGED <<queue_status_flags, wait_flags, input_event, cx>>
    /\ UNCHANGED <<state, waker_in_use, sharedFreed>>
    /\ UNCHANGED <<poolVars, osVars, outVars, pollHist, dropHist, envHist>>
    /\ UNCHANGED iterVars
    /\ UNCHANGED loopVars
    /\ UNCHANGED raceHist

\* SetThreadpoolWait(*self.ptp_wait, Some(input event), None)
poll_arm ==
    /\ fpc = "p_arm"
    /\ waitRegistered' = TRUE
    /\ Log("SetThreadpoolWait", TRUE)
    /\ fpc' = "p_cas"
    /\ UNCHANGED <<futVars, sharedVars, outVars, pollHist, dropHist, envHist>>
    /\ UNCHANGED <<waitObj, cbpc, old_state>>
    /\ UNCHANGED <<queue, wakeMask, inputEventSignalled, packetAssociated>>
    /\ UNCHANGED iterVars
    /\ UNCHANGED loopVars
    /\ UNCHANGED raceHist

\* state.compare_exchange(NotPending, Pending): Ok => Poll::Pending,
\* Err => the wait already finished, self.ready()
\* Variant: the result of the compare-exchange is ignored and the poll returns
\* pending whatever the callback did.
poll_cas_ignoreFailure ==
    /\ fpc = "p_cas"
    /\ state' = (IF state = NotPending THEN Pending ELSE state)
    /\ PollReturn("pending")
    /\ UNCHANGED <<queue_status_flags, wait_flags, input_event, ptp_wait, wait>>
    /\ UNCHANGED <<waker_in_use, waker, sharedFreed>>
    /\ UNCHANGED <<pollNo, probed, wakesAtPollStart>>
    /\ UNCHANGED <<poolVars, osVars, outVars, dropHist, envHist>>
    /\ UNCHANGED iterVars
    /\ UNCHANGED loopVars
    /\ UNCHANGED raceHist

\* compare_exchange(NotPending, Pending): on success the poll returns pending,
\* on failure the callback already set Ready and the poll resolves via ready().
poll_cas ==
    /\ fpc = "p_cas"
    /\ IF state = NotPending
       THEN /\ state' = Pending
            /\ PollReturn("pending")
       ELSE /\ fpc' = "p_ready_event"
            /\ UNCHANGED <<state, pollResults, cx>>
    /\ UNCHANGED <<queue_status_flags, wait_flags, input_event, ptp_wait, wait>>
    /\ UNCHANGED <<waker_in_use, waker, sharedFreed>>
    /\ UNCHANGED <<pollNo, probed, wakesAtPollStart>>
    /\ UNCHANGED <<poolVars, osVars, outVars, dropHist, envHist>>
    /\ UNCHANGED iterVars
    /\ UNCHANGED loopVars
    /\ UNCHANGED raceHist

\* ready(), first statement: drop(this.input_event.take()). A failed
\* clear_wake_mask panics: the poll unwinds without returning.
poll_ready_event ==
    /\ fpc = "p_ready_event"
    /\ input_event' = FALSE
    /\ IF input_event
       THEN \E ok \in BOOLEAN :
              /\ ConfiguredInputEvent_drop(ok)
              /\ IF ok
                 THEN fpc' = "p_ready_wait" /\ UNCHANGED <<pollResults, cx>>
                 ELSE PollReturn("panic")
       ELSE /\ fpc' = "p_ready_wait"
            /\ UNCHANGED <<pollResults, cx, wakeMask, packetAssociated, oslog, panicked>>
    /\ UNCHANGED <<queue_status_flags, wait_flags, ptp_wait, wait>>
    /\ UNCHANGED <<pollNo, probed, wakesAtPollStart>>
    /\ UNCHANGED <<queue, inputEventSignalled, wakeLog, crashed>>
    /\ UNCHANGED <<sharedVars, poolVars, dropHist, envHist>>
    /\ UNCHANGED iterVars
    /\ UNCHANGED loopVars
    /\ UNCHANGED raceHist

\* ready(), second statement: drop(take(&mut this.ptp_wait)) closes the wait
\* object without waiting for its callbacks; then Poll::Ready(Ok(iterator)).
poll_ready_wait ==
    /\ fpc = "p_ready_wait"
    /\ ptp_wait' = FALSE
    /\ IF ptp_wait
       THEN waitObj' = "closed" /\ Log("CloseThreadpoolWait", TRUE)
       ELSE UNCHANGED <<waitObj, oslog>>
    /\ PollReturn("ready")
    /\ UNCHANGED <<queue_status_flags, wait_flags, input_event, wait>>
    /\ UNCHANGED <<pollNo, probed, wakesAtPollStart>>
    /\ UNCHANGED <<waitRegistered, cbpc, old_state>>
    /\ UNCHANGED <<queue, wakeMask, inputEventSignalled, packetAssociated>>
    /\ UNCHANGED <<sharedVars, outVars, dropHist, envHist>>
    /\ UNCHANGED iterVars
    /\ UNCHANGED loopVars
    /\ UNCHANGED raceHist

(* ------------------------- the pool and wait_done ---------------------- *)

\* The callback is executing (it has been entered and has not returned).
CallbackRunning == cbpc \in {"c_swap", "c_spin", "c_wake", "c_release"}

\* The callback is inside wait_done after its swap of state and before its
\* release of waker_in_use.
CallbackPastSwap == cbpc \in {"c_spin", "c_wake", "c_release"}

\* The thread pool: the armed wait is satisfied by the signalled input event
\* (an auto-reset event); the wait is one-shot and its callback is queued.
pool_fire ==
    /\ waitRegistered
    /\ waitObj = "open"
    /\ inputEventSignalled
    /\ cbpc = "idle"
    /\ waitRegistered' = FALSE
    /\ inputEventSignalled' = FALSE
    /\ cbpc' = "queued"
    /\ UNCHANGED <<fpc, futVars, sharedVars, outVars, pollHist, dropHist, envHist>>
    /\ UNCHANGED <<waitObj, old_state, queue, wakeMask, packetAssociated, oslog>>
    /\ UNCHANGED iterVars
    /\ UNCHANGED loopVars
    /\ UNCHANGED raceHist

\* InputEventFuture::callback is entered on a worker thread.
callback ==
    /\ cbpc = "queued"
    /\ cbpc' = "c_swap"
    /\ UNCHANGED <<fpc, futVars, sharedVars, osVars, outVars, pollHist, dropHist, envHist>>
    /\ UNCHANGED <<waitObj, waitRegistered, old_state>>
    /\ UNCHANGED iterVars
    /\ UNCHANGED loopVars
    /\ UNCHANGED raceHist

\* Variant: the early return is taken for Pending instead of NotPending.
WakeNeeded_inverted(old) == old = NotPending

\* Variant: the early return is taken for NotPending only, so a callback that
\* observes Cancelled goes on to the waker.
WakeNeeded_unlessNotPending(old) == old /= NotPending

\* old_state != Pending => return: only a Pending future has a waker to wake
WakeNeeded(old) == old = Pending

\* wait_done: old_state = state.swap(Ready)
wait_done_swap ==
    /\ cbpc = "c_swap"
    /\ old_state' = state
    /\ state' = Ready
    /\ cbpc' = (IF WakeNeeded(state) THEN "c_spin" ELSE "c_done")
    /\ UNCHANGED <<fpc, futVars, osVars, outVars, pollHist, dropHist, envHist>>
    /\ UNCHANGED <<waker_in_use, waker, sharedFreed, waitObj, waitRegistered>>
    /\ UNCHANGED iterVars
    /\ UNCHANGED loopVars
    /\ swapInRepoll' = (IF fpc \in {"p_trylock", "p_store"} THEN pollNo ELSE swapInRepoll)

\* Variant: the callback goes on to the waker without acquiring waker_in_use.
wait_done_acquire_noSpin ==
    /\ cbpc = "c_spin"
    /\ waker_in_use' = (IF sharedFreed THEN waker_in_use ELSE TRUE)
    /\ cbpc' = "c_wake"
    /\ UNCHANGED <<fpc, futVars, osVars, outVars, pollHist, dropHist, envHist>>
    /\ UNCHANGED <<state, waker, sharedFreed, waitObj, waitRegistered, old_state>>
    /\ UNCHANGED iterVars
    /\ UNCHANGED loopVars
    /\ UNCHANGED raceHist

\* wait_done: the spin on waker_in_use.compare_exchange(false, true). On a
\* released shared state the load reads whatever the memory holds now.
wait_done_acquire ==
    /\ cbpc = "c_spin"
    /\ IF sharedFreed
       THEN UNCHANGED waker_in_use
       ELSE ~waker_in_use /\ waker_in_use' = TRUE
    /\ cbpc' = "c_wake"
    /\ UNCHANGED <<fpc, futVars, osVars, outVars, pollHist, dropHist, envHist>>
    /\ UNCHANGED <<state, waker, sharedFreed, waitObj, waitRegistered, old_state>>
    /\ UNCHANGED iterVars
    /\ UNCHANGED loopVars
    /\ UNCHANGED raceHist

\* Variant: the callback passes the waker by without invoking it.
wait_done_wake_skip ==
    /\ cbpc = "c_wake"
    /\ cbpc' = "c_release"
    /\ UNCHANGED <<fpc, futVars, sharedVars, osVars, outVars, pollHist, dropHist, envHist>>
    /\ UNCHANGED <<waitObj, waitRegistered, old_state>>
    /\ UNCHANGED iterVars
    /\ UNCHANGED loopVars
    /\ UNCHANGED raceHist

\* Variant: the callback takes the stored waker out instead of borrowing it.
wait_done_wake_take ==
    /\ cbpc = "c_wake"
    /\ wakeLog' = Append(wakeLog, waker)
    /\ waker' = 0
    /\ cbpc' = "c_release"
    /\ UNCHANGED <<fpc, futVars, osVars, pollHist, dropHist, envHist>>
    /\ UNCHANGED <<state, waker_in_use, sharedFreed, crashed>>
    /\ UNCHANGED <<panicked, waitObj, waitRegistered, old_state>>
    /\ UNCHANGED iterVars
    /\ UNCHANGED loopVars
    /\ UNCHANGED raceHist

\* wait_done: self.waker.as_ref().unwrap().wake_by_ref(). On a released shared
\* state the waker has been dropped: the call either still reaches the task's
\* waker or faults.
wait_done_wake ==
    /\ cbpc = "c_wake"
    /\ IF sharedFreed
       THEN \E outcome \in {"wake", "fault"} :
              IF outcome = "wake"
              THEN /\ wakeLog' = Append(wakeLog, waker)
                   /\ cbpc' = "c_release"
                   /\ UNCHANGED crashed
              ELSE /\ crashed' = TRUE
                   /\ cbpc' = "c_fault"
                   /\ UNCHANGED wakeLog
       ELSE IF waker = 0
       THEN \* unwrap of None
            /\ cbpc' = "c_panic"
            /\ UNCHANGED <<wakeLog, crashed>>
       ELSE /\ wakeLog' = Append(wakeLog, waker)
            /\ cbpc' = "c_release"
            /\ UNCHANGED crashed
    /\ UNCHANGED <<fpc, futVars, sharedVars, osVars, pollHist, dropHist, envHist>>
    /\ UNCHANGED <<panicked, waitObj, waitRegistered, old_state>>
    /\ UNCHANGED iterVars
    /\ UNCHANGED loopVars
    /\ UNCHANGED raceHist

\* wait_done: self.waker_in_use.store(false)
wait_done_release ==
    /\ cbpc = "c_release"
    /\ waker_in_use' = (IF sharedFreed THEN waker_in_use ELSE FALSE)
    /\ cbpc' = "c_done"
    /\ UNCHANGED <<fpc, futVars, osVars, outVars, pollHist, dropHist, envHist>>
    /\ UNCHANGED <<state, waker, sharedFreed, waitObj, waitRegistered, old_state>>
    /\ UNCHANGED iterVars
    /\ UNCHANGED loopVars
    /\ UNCHANGED raceHist

(* --------------------------- Drop for the future ----------------------- *)

\* Variant: the drop stores Cancelled instead of using a compare-exchange.
drop_cas_store ==
    /\ fpc = "idle"
    /\ dropState' = state
    /\ state' = Cancelled
    /\ dropCas' = (IF state = Pending THEN "ok" ELSE "failed")
    /\ fpc' = (IF state = Pending THEN "d_disarm" ELSE "d_input_event")
    /\ UNCHANGED <<futVars, poolVars, osVars, outVars, pollHist, envHist>>
    /\ UNCHANGED <<waker_in_use, waker, sharedFreed>>
    /\ UNCHANGED iterVars
    /\ UNCHANGED loopVars
    /\ swapInRepoll' = 0

\* drop: state.compare_exchange(Pending, Cancelled)
drop_cas ==
    /\ fpc = "idle"
    /\ dropState' = state
    /\ IF state = Pending
       THEN /\ state' = Cancelled
            /\ dropCas' = "ok"
            /\ fpc' = "d_disarm"
       ELSE /\ dropCas' = "failed"
            /\ fpc' = "d_input_event"
            /\ UNCHANGED state
    /\ UNCHANGED <<futVars, poolVars, osVars, outVars, pollHist, envHist>>
    /\ UNCHANGED <<waker_in_use, waker, sharedFreed>>
    /\ UNCHANGED iterVars
    /\ UNCHANGED loopVars
    /\ swapInRepoll' = 0

\* drop: SetThreadpoolWaitEx(*self.ptp_wait, None, None, None) returns whether
\* a registered wait was cancelled.
drop_disarm ==
    /\ fpc = "d_disarm"
    /\ Log("SetThreadpoolWaitEx", waitRegistered)
    /\ waitRegistered' = FALSE
    /\ fpc' = (IF waitRegistered THEN "d_input_event" ELSE "d_flush")
    /\ UNCHANGED <<futVars, sharedVars, outVars, pollHist, dropHist, envHist>>
    /\ UNCHANGED <<waitObj, cbpc, old_state>>
    /\ UNCHANGED <<queue, wakeMask, inputEventSignalled, packetAssociated>>
    /\ UNCHANGED iterVars
    /\ UNCHANGED loopVars
    /\ UNCHANGED raceHist

\* drop: WaitForThreadpoolWaitCallbacks(*self.ptp_wait, true) cancels a callback
\* that has not started and blocks while one is executing.
drop_flush ==
    /\ fpc = "d_flush"
    /\ ~CallbackRunning
    /\ cbpc' = (IF cbpc = "queued" THEN "cancelled" ELSE cbpc)
    /\ Log("WaitForThreadpoolWaitCallbacks", TRUE)
    /\ fpc' = "d_input_event"
    /\ UNCHANGED <<futVars, sharedVars, outVars, pollHist, dropHist, envHist>>
    /\ UNCHANGED <<waitObj, waitRegistered, old_state>>
    /\ UNCHANGED <<queue, wakeMask, inputEventSignalled, packetAssociated>>
    /\ UNCHANGED iterVars
    /\ UNCHANGED loopVars
    /\ UNCHANGED raceHist

\* The fields are dropped in declaration order; first input_event.
drop_input_event ==
    /\ fpc = "d_input_event"
    /\ input_event' = FALSE
    /\ IF input_event
       THEN \E ok \in BOOLEAN : ConfiguredInputEvent_drop(ok)
       ELSE UNCHANGED <<wakeMask, packetAssociated, oslog, panicked>>
    /\ fpc' = "d_shared"
    /\ UNCHANGED <<queue_status_flags, wait_flags, ptp_wait, wait, cx>>
    /\ UNCHANGED <<queue, inputEventSignalled, wakeLog, crashed>>
    /\ UNCHANGED <<sharedVars, poolVars, pollHist, dropHist, envHist>>
    /\ UNCHANGED iterVars
    /\ UNCHANGED loopVars
    /\ UNCHANGED raceHist

\* Then shared: the stored waker is dropped and the record is released.
drop_shared ==
    /\ fpc = "d_shared"
    /\ sharedFreed' = TRUE
    /\ fpc' = "d_ptp_wait"
    /\ UNCHANGED <<futVars, state, waker_in_use, waker>>
    /\ UNCHANGED <<poolVars, osVars, outVars, pollHist, dropHist, envHist>>
    /\ UNCHANGED iterVars
    /\ UNCHANGED loopVars
    /\ UNCHANGED raceHist

\* Then ptp_wait: Owned<PTP_WAIT> closes the wait object, which does not wait
\* for an executing callback.
drop_ptp_wait ==
    /\ fpc = "d_ptp_wait"
    /\ ptp_wait' = FALSE
    /\ IF ptp_wait
       THEN waitObj' = "closed" /\ Log("CloseThreadpoolWait", TRUE)
       ELSE UNCHANGED <<waitObj, oslog>>
    /\ fpc' = "dropped"
    /\ UNCHANGED <<queue_status_flags, wait_flags, input_event, wait, cx>>
    /\ UNCHANGED <<waitRegistered, cbpc, old_state>>
    /\ UNCHANGED <<queue, wakeMask, inputEventSignalled, packetAssociated>>
    /\ UNCHANGED <<sharedVars, outVars, pollHist, dropHist, envHist>>
    /\ UNCHANGED iterVars
    /\ UNCHANGED loopVars
    /\ UNCHANGED raceHist

(* --------------------------- MessageIterator --------------------------- *)

\* The owner holds the iterator a poll resolved to and has not exhausted it.
IteratorLive ==
    /\ fpc \in {"idle", "dropped"}
    /\ LastResult = "ready"
    /\ ~iterDone

\* Variant: the message is peeked without being removed from the queue.
iter_next_noRemove ==
    /\ IteratorLive
    /\ iterStart' = (IF iterStart = <<>> THEN <<queue, posts>> ELSE iterStart)
    /\ IF queue /= <<>>
       THEN /\ yielded' = Append(yielded, Head(queue))
            /\ iterDone' = (Len(yielded) >= MaxPosts)
            /\ UNCHANGED queue
       ELSE /\ iterDone' = TRUE
            /\ UNCHANGED <<yielded, queue>>
    /\ UNCHANGED <<fpc, futVars, sharedVars, poolVars, outVars, pollHist, dropHist, envHist>>
    /\ UNCHANGED <<wakeMask, inputEventSignalled, packetAssociated, oslog>>
    /\ UNCHANGED loopVars
    /\ UNCHANGED raceHist

\* MessageIterator::next: PeekMessageW(.., PM_REMOVE) removes and returns the
\* message at the head of the queue, or finds none and ends the sequence.
iter_next ==
    /\ IteratorLive
    /\ iterStart' = (IF iterStart = <<>> THEN <<queue, posts>> ELSE iterStart)
    /\ IF queue /= <<>>
       THEN /\ yielded' = Append(yielded, Head(queue))
            /\ queue' = Tail(queue)
            /\ UNCHANGED iterDone
       ELSE /\ iterDone' = TRUE
            /\ UNCHANGED <<yielded, queue>>
    /\ UNCHANGED <<fpc, futVars, sharedVars, poolVars, outVars, pollHist, dropHist, envHist>>
    /\ UNCHANGED <<wakeMask, inputEventSignalled, packetAssociated, oslog>>
    /\ UNCHANGED loopVars
    /\ UNCHANGED raceHist

(* ---------------------------- specification ---------------------------- *)

\* The steps of a poll or a drop in progress, which the owner thread runs to
\* the end once begun.
OwnerStep ==
    \/ poll_trylock \/ poll_store \/ poll_unlock
    \/ poll_probe \/ poll_create \/ poll_event \/ poll_attach
    \/ poll_install \/ poll_arm \/ poll_cas
    \/ poll_ready_event \/ poll_ready_wait
    \/ drop_disarm \/ drop_flush \/ drop_input_event \/ drop_shared \/ drop_ptp_wait

\* The steps of the thread pool and of its worker thread.
PoolStep ==
    \/ pool_fire \/ callback
    \/ wait_done_swap \/ wait_done_acquire \/ wait_done_wake \/ wait_done_release

Next ==
    \/ wait_for_messages
    \/ PostMessage
    \/ poll_load
    \/ drop_cas
    \/ iter_next
    \/ OwnerStep
    \/ PoolStep

Spec == Init /\ [][Next]_vars

\* The pool runs a queued callback to its end and the owner thread finishes the
\* call it is in; nothing obliges the caller to poll, to drop or to post.
FairSpec == Spec /\ WF_vars(PoolStep) /\ WF_vars(OwnerStep)

(* ------------------------------ properties ----------------------------- *)

\* How many OS calls named `name` the log holds.
Calls(name) == Cardinality({i \in 1..Len(oslog) : oslog[i][1] = name})
\* How many of them succeeded.
CallsOk(name) == Cardinality({i \in 1..Len(oslog) : oslog[i] = <<name, TRUE>>})

PollInProgress ==
    fpc \in {"p_trylock", "p_store", "p_unlock", "p_probe", "p_create", "p_event",
             "p_attach", "p_install", "p_arm", "p_cas", "p_ready_event", "p_ready_wait"}

DropBegun == dropCas /= "none"

\* C1: once a message matching the wake mask has been posted after the first
\* poll returned pending, the stored waker is eventually invoked, unless the
\* owner begins to drop the future.
C1_PendingEventuallyWoken ==
    postedAfterPending ~> (Len(wakeLog) >= 1 \/ DropBegun)

C1_Witness ==
    /\ postedAfterPending
    /\ pollResults = <<"pending">>
    /\ ~DropBegun
    /\ wakeLog = <<1>>

\* C2: the shared wake state is never released while a callback is inside
\* wait_done between its swap of state and its release of waker_in_use.
C2_SharedOutlivesCallback ==
    sharedFreed => ~CallbackPastSwap

\* C3: after the drop of a future that was polled once to pending has returned,
\* the wake mask is cleared and the waker is not invoked any more.
C3_NoWakeAfterDrop ==
    [][(fpc = "dropped" /\ pollResults = <<"pending">>)
         => ((panicked \/ wakeMask = 0) /\ wakeLog' = wakeLog)]_vars

\* C4: once a drop has finished, every acquired input event has had
\* clear_wake_mask run for it, the wake mask is cleared (when the clear
\* succeeded), and no pool wait is armed or has a callback queued.
C4_DropLeavesNothingBehind ==
    fpc = "dropped" =>
        /\ ~input_event
        /\ Calls("ClearWakeMask") = CallsOk("GetInputEvent")
        /\ (~panicked => wakeMask = 0)
        /\ ~waitRegistered
        /\ cbpc /= "queued"
        /\ waitObj /= "open"

C4_Witness ==
    /\ fpc = "dropped"
    /\ dropState = Pending
    /\ CallsOk("GetInputEvent") = 1
    /\ CallsOk("SetThreadpoolWaitEx") = 1
    /\ wakeMask = 0

\* C5: when the probe of the first poll reports a nonzero status, that poll
\* returns ready having created no pool wait, acquired no input event and
\* stored no waker, and the state stays NotPending.
C5_FastPath ==
    probed > 0 =>
        /\ pollResults = <<"ready">>
        /\ fpc \notin {"p_create", "p_event", "p_attach", "p_install", "p_arm", "p_cas"}
        /\ waitObj = "none" /\ ~wait /\ ~ptp_wait /\ ~waitRegistered
        /\ ~input_event
        /\ waker = 0
        /\ state = NotPending
        /\ oslog = << <<"GetQueueStatus", TRUE>> >>

C5_Witness ==
    /\ probed > 0
    /\ pollResults = <<"ready">>
    /\ fpc = "idle"

\* C6: a poll returns ready only if the callback has set Ready or the probe of
\* the first poll was nonzero; after the first poll returned pending, and as
\* long as the input event has not been signalled, every poll returns pending.
C6_NoSpuriousResolution ==
    /\ LastResult = "ready" => (probed > 0 \/ old_state /= "none")
    /\ fpc \in {"p_ready_event", "p_ready_wait"} => old_state /= "none"
    /\ (pollResults /= <<>> /\ pollResults[1] = "pending" /\ ~everSignalled)
         => /\ \A i \in 1..Len(pollResults) : pollResults[i] = "pending"
            /\ fpc \notin {"p_ready_event", "p_ready_wait"}

C6_Witness ==
    /\ pollResults = <<"pending", "pending", "pending">>
    /\ ~everSignalled
    /\ posts > 0

\* C7: once the first poll is past its queue-attach step, the queue-attach
\* syscall has been made if and only if the caller set the queue-attach bit in
\* the wait flags.
C7_QueueAttachOptIn ==
    fpc \in {"p_install", "p_arm", "p_cas"} =>
        (Calls("SetWaitForQueueAttach") = 1 <=> BitAnd(wait_flags, MWMO_QUEUEATTACH) /= 0)

\* C8: wait_for_messages fails exactly when the wait flags hold the alertable or
\* the wait-all bit or a flag value needs more than 16 bits; it makes no OS
\* call, and the future it returns is NotPending and holds no input event, no
\* pool wait and no waker.
C8_ArgumentValidation ==
    fpc /= "start" =>
        /\ (fpc = "invalid") <=>
              \/ args[2] % 2 = 1
              \/ (args[2] \div 2) % 2 = 1
              \/ args[1] > 65535
              \/ args[2] > 65535
        /\ (fpc = "invalid" \/ pollNo = 0) =>
              /\ oslog = <<>>
              /\ state = NotPending
              /\ ~input_event /\ ~ptp_wait /\ ~wait
              /\ waitObj = "none" /\ ~waitRegistered
              /\ waker = 0
        /\ fpc /= "invalid" =>
              /\ queue_status_flags = args[1]
              /\ wait_flags = args[2]

C8_Witness ==
    /\ fpc = "invalid"
    /\ args = <<QS_TIMER, MWMO_WAITALL>>

\* C9: the callback invokes a waker at most once, and exactly once when it has
\* completed wait_done after observing Pending; the waker invoked is one a poll
\* stored; a poll that starts after the invocation takes the ready path and, when
\* it returns, returns ready.
C9_WakerReplacement ==
    /\ Len(wakeLog) <= 1
    /\ (cbpc = "c_done" /\ old_state = Pending) => Len(wakeLog) = 1
    /\ \A i \in 1..Len(wakeLog) : wakeLog[i] \in 1..pollNo
    /\ wakesAtPollStart >= 1 =>
          IF PollInProgress
          THEN fpc \in {"p_ready_event", "p_ready_wait"}
          ELSE LastResult \in {"ready", "panic"}

C9_Witness ==
    /\ pollResults = <<"pending", "pending", "ready">>
    /\ wakeLog = <<2>>
    /\ wakesAtPollStart = 1
    /\ ~DropBegun

\* C10: for a future dropped while Pending or after the callback observed
\* Pending, once both the drop and the callback have come to an end, either the
\* drop's CAS succeeded and no waker was invoked, or the callback observed
\* Pending and invoked the waker, the drop's CAS failed and no disarm was made.
C10_DropCallbackRace ==
    (/\ fpc = "dropped"
     /\ pollResults /= <<>> /\ pollResults[1] = "pending"
     /\ dropState \in {Pending, Ready} /\ LastResult = "pending"
     /\ ~CallbackRunning /\ cbpc /= "queued")
    => \/ /\ dropCas = "ok"
          /\ old_state /= Pending
          /\ wakeLog = <<>>
       \/ /\ dropCas = "failed"
          /\ old_state = Pending
          /\ Len(wakeLog) = 1
          /\ Calls("SetThreadpoolWaitEx") = 0

\* C11 (as claimed): once the state word holds Ready or Cancelled it never
\* holds another value.
C11_ReadyCancelledTerminal ==
    [][(state \in {Ready, Cancelled}) => state' = state]_vars

\* C11 (amended): Ready is terminal; Cancelled is left only by the swap of a
\* callback that had already started, which stores Ready; the transitions of
\* the state word are NotPending->Pending, Pending->Ready, Pending->Cancelled,
\* NotPending->Ready and Cancelled->Ready.
C11_StateTransitions ==
    [][/\ state = Ready => state' = Ready
       /\ state' /= state =>
            /\ <<state, state'>> \in {<<NotPending, Pending>>, <<Pending, Ready>>,
                                      <<Pending, Cancelled>>, <<NotPending, Ready>>,
                                      <<Cancelled, Ready>>}
            /\ <<state, state'>> = <<NotPending, Pending>> => fpc = "p_cas"
            /\ <<state, state'>> = <<Pending, Cancelled>> => fpc = "idle" /\ fpc' = "d_disarm"
            /\ state' = Ready => cbpc = "c_swap"
            /\ <<state, state'>> = <<NotPending, Ready>> => fpc = "p_cas"
            /\ <<state, state'>> = <<Cancelled, Ready>> => (fpc \in {"d_disarm", "d_flush"} /\ cbpc' = "c_done")
      ]_vars

C11_Witness ==
    /\ state = Ready
    /\ old_state = Cancelled
    /\ dropCas = "ok"
    /\ fpc = "dropped"

(* ------------------------------- C13 ----------------------------------- *)

\* C13 (as claimed): when the input event is signalled after the pool wait is
\* armed and before the compare-exchange NotPending -> Pending, that poll does
\* not return pending.
C13_SignalInWindowNeverPending ==
    signalledBeforeCas => (Len(pollResults) >= 1 => pollResults[1] /= "pending")

\* C13 (amended): the callback observes NotPending only while the poll stands
\* between the arming and its compare-exchange; when it does, it sets Ready and
\* finishes without taking waker_in_use or invoking the waker, the poll's
\* compare-exchange fails, and that poll never returns pending: it returns
\* ready (or unwinds on a failed clear_wake_mask) with the input event and the
\* wait registration released.
C13_ArmRace ==
    /\ (cbpc = "c_swap" /\ state = NotPending) => fpc = "p_cas"
    /\ old_state = NotPending =>
         /\ state = Ready
         /\ cbpc = "c_done"
         /\ ~waker_in_use
         /\ wakeLog = <<>>
         /\ fpc \in {"p_cas", "p_ready_event", "p_ready_wait", "idle",
                     "d_input_event", "d_shared", "d_ptp_wait", "dropped"}
         /\ pollResults \in {<<>>, <<"ready">>, <<"panic">>}
         /\ pollResults = <<>> => PollInProgress
         /\ pollResults = <<"ready">> =>
              /\ ~input_event /\ ~ptp_wait
              /\ waitObj = "closed"
              /\ CallsOk("ClearWakeMask") = 1
              /\ wakeMask = 0

C13_Witness ==
    /\ signalledBeforeCas
    /\ old_state = NotPending
    /\ pollResults = <<"ready">>
    /\ fpc = "idle"
    /\ Calls("CloseThreadpoolWait") = 1

(* ------------------------------- C14 ----------------------------------- *)

\* The poll is on the path it takes after loading Pending.
RepollInProgress == fpc \in {"p_trylock", "p_store", "p_unlock"}

\* C14: a poll that loads Pending returns pending in at most three steps, each
\* of which can always be taken (no blocking, no retry of the flag). When it
\* acquires waker_in_use it stores the current waker and releases the flag;
\* when the flag is busy it returns with the stored waker unchanged. Its steps
\* leave the state word, the input event, the wait registration and the OS
\* (no syscall) untouched.
C14_RepollWhilePending ==
    /\ [](fpc = "p_trylock" => ENABLED poll_trylock)
    /\ [](fpc = "p_store" => (waker_in_use /\ ENABLED poll_store))
    /\ [](fpc = "p_unlock" => (waker_in_use /\ waker = cx /\ cx = pollNo /\ ENABLED poll_unlock))
    /\ [][/\ (fpc = "idle" /\ pollNo' /= pollNo /\ state = Pending) => fpc' = "p_trylock"
          /\ (fpc' = "p_trylock" /\ fpc /= "p_trylock") => (fpc = "idle" /\ state = Pending)
          /\ (fpc = "p_trylock" /\ fpc' /= fpc) =>
               /\ IF waker_in_use
                  THEN /\ fpc' = "idle"
                       /\ pollResults' = Append(pollResults, "pending")
                       /\ waker_in_use'
                  ELSE /\ fpc' = "p_store"
                       /\ waker_in_use'
                       /\ pollResults' = pollResults
               /\ waker' = waker
          /\ (fpc = "p_store" /\ fpc' /= fpc) =>
               /\ fpc' = "p_unlock"
               /\ waker' = cx
               /\ waker_in_use' = waker_in_use
               /\ pollResults' = pollResults
          /\ (fpc = "p_unlock" /\ fpc' /= fpc) =>
               /\ fpc' = "idle"
               /\ pollResults' = Append(pollResults, "pending")
               /\ ~waker_in_use'
               /\ waker' = waker
          /\ (RepollInProgress /\ fpc' /= fpc) =>
               /\ state' = state
               /\ <<input_event, ptp_wait, wait>>' = <<input_event, ptp_wait, wait>>
               /\ <<waitObj, waitRegistered>>' = <<waitObj, waitRegistered>>
               /\ <<wakeMask, oslog, queue>>' = <<wakeMask, oslog, queue>>
               /\ wakeLog' = wakeLog
         ]_vars

C14_Witness ==
    /\ Len(pollResults) = 2
    /\ pollResults[2] = "pending"
    /\ waker = 2
    /\ ~waker_in_use
    /\ fpc = "idle"
    /\ state = Pending

\* A re-poll that found waker_in_use busy has returned pending.
C14_BusyReached ==
    /\ Len(pollResults) = 2
    /\ pollResults[2] = "pending"
    /\ waker = 1
    /\ cbpc \in {"c_wake", "c_release"}

(* ------------------------------- C15 ----------------------------------- *)

\* C15: whenever a Configured Input Event is alive, the wait registration
\* created alongside it has not been released.
C15_LifetimeNesting ==
    input_event => waitObj = "open"

(* ------------------------------- C16 ----------------------------------- *)

\* The positions of the OS call log that hold a call of `name`.
CallsAt(name) == {i \in 1..Len(oslog) : oslog[i][1] = name}

\* C16: in the log of OS calls every cancel of the completion packet directly
\* follows a successful get_input_event (which installed the composed word as
\* the wake mask) and every reassociate directly follows a successful
\* clear_wake_mask; per input event the calls are get_input_event, cancel, ...,
\* clear_wake_mask, reassociate, each at most once and in that order. The
\* results of cancel and reassociate change nothing, and exactly a failed
\* clear_wake_mask is fatal (no reassociate follows it).
C16_OsCallOrdering ==
    /\ \A i \in CallsAt("CancelPacket") :
         i > 1 /\ oslog[i - 1] = <<"GetInputEvent", TRUE>>
    /\ \A i \in CallsAt("ReassociatePacket") :
         i > 1 /\ oslog[i - 1] = <<"ClearWakeMask", TRUE>>
    /\ \A i \in CallsAt("GetInputEvent") :
         oslog[i][2] => (i < Len(oslog) /\ oslog[i + 1][1] = "CancelPacket")
    /\ \A i \in CallsAt("ClearWakeMask") :
         /\ oslog[i][2] => (i < Len(oslog) /\ oslog[i + 1][1] = "ReassociatePacket")
         /\ \E j \in CallsAt("CancelPacket") : j < i
    /\ Calls("GetInputEvent") <= 1
    /\ Calls("CancelPacket") = CallsOk("GetInputEvent")
    /\ Calls("ClearWakeMask") <= Calls("CancelPacket")
    /\ Calls("ReassociatePacket") = CallsOk("ClearWakeMask")
    /\ (Calls("CancelPacket") = 1 /\ Calls("ClearWakeMask") = 0) =>
         /\ wakeMask = make_dword(queue_status_flags, wait_flags)
         /\ input_event
    /\ (oslog /= <<>> /\ oslog[Len(oslog)][1] = "CancelPacket") =>
         (input_event /\ fpc \in {"p_attach", "p_install", "p_arm"})
    /\ panicked <=> (Calls("ClearWakeMask") /= CallsOk("ClearWakeMask"))
    /\ fpc = "dropped" => Calls("ClearWakeMask") = Calls("CancelPacket")

C16_Witness ==
    /\ fpc = "dropped"
    /\ ~panicked
    /\ \E i \in CallsAt("CancelPacket") : ~oslog[i][2]
    /\ \E i \in CallsAt("ReassociatePacket") : ~oslog[i][2]

(* ------------------------------- C17 ----------------------------------- *)

\* C17: once the drop of the future has begun it completes, whatever the pool
\* callback does meanwhile (the pool and the dropping thread being scheduled
\* fairly); while the drop disarms and flushes, a running callback is at its
\* swap and will observe Cancelled, never spinning on or holding waker_in_use.
C17_DropTerminates ==
    /\ DropBegun ~> (fpc = "dropped")
    /\ [](fpc \in {"d_disarm", "d_flush"} =>
            /\ ~CallbackPastSwap
            /\ cbpc = "c_swap" => state = Cancelled
            /\ ~waker_in_use)

C17_Witness ==
    /\ fpc = "dropped"
    /\ dropCas = "ok"
    /\ Calls("WaitForThreadpoolWaitCallbacks") = 1
    /\ old_state = Cancelled
    /\ cbpc = "c_done"

(* ------------------------------- C18 ----------------------------------- *)

\* C18: a step of the pool callback (from its entry to its return) changes at
\* most the state word and the waker_in_use flag and invokes the stored waker;
\* the stored waker value, the future's own fields, the wait registration, the
\* wake mask, the input event and the message queue are left unchanged.
C18_CallbackFrame ==
    [][(cbpc \in {"queued", "c_swap", "c_spin", "c_wake", "c_release"} /\ cbpc' /= cbpc
          /\ fpc' = fpc) =>
         /\ waker' = waker
         /\ futVars' = futVars
         /\ <<waitObj, waitRegistered>>' = <<waitObj, waitRegistered>>
         /\ osVars' = osVars
         /\ sharedFreed' = sharedFreed
         /\ (state' /= state => (cbpc = "c_swap" /\ state' = Ready))
         /\ (waker_in_use' /= waker_in_use => cbpc \in {"c_spin", "c_release"})
         /\ (wakeLog' /= wakeLog => (cbpc = "c_wake" /\ wakeLog' = Append(wakeLog, waker)))
      ]_vars

C18_Witness ==
    /\ cbpc = "c_done"
    /\ old_state = Pending
    /\ wakeLog = <<1>>
    /\ waker = 1
    /\ input_event /\ ptp_wait /\ waitObj = "open"
    /\ wakeMask /= 0
    /\ ~sharedFreed

(* ------------------------------- C19 ----------------------------------- *)

\* C19: each next() of the drain iterator removes and returns the head of the
\* queue when there is one and ends the sequence otherwise; when no message is
\* posted during the iteration, the messages yielded so far followed by the
\* queue are the messages queued at its start, and at its end it has yielded
\* exactly those, in order, and the queue is empty. An iteration ends: a live
\* iterator can always take its next step, and each step shortens the queue
\* or is the last.
C19_DrainIterator ==
    /\ [](IteratorLive => ENABLED iter_next)
    /\ []((iterStart /= <<>> /\ posts = iterStart[2]) =>
            /\ yielded \o queue = iterStart[1]
            /\ iterDone => (yielded = iterStart[1] /\ queue = <<>>))
    /\ [](iterDone => iterStart /= <<>>)
    /\ [][(yielded' /= yielded \/ iterDone' /= iterDone) =>
            /\ IteratorLive
            /\ IF queue /= <<>>
               THEN /\ yielded' = Append(yielded, Head(queue))
                    /\ queue' = Tail(queue)
                    /\ iterDone' = iterDone
               ELSE /\ iterDone'
                    /\ yielded' = yielded
                    /\ queue' = queue
         ]_vars

C19_Witness ==
    /\ iterDone
    /\ iterStart /= <<>>
    /\ Len(iterStart[1]) = 2
    /\ iterStart[1][1] /= iterStart[1][2]
    /\ yielded = iterStart[1]
    /\ queue = <<>>

(* ------------------------------- C20 ----------------------------------- *)

\* The OS calls of the first poll whose failure poll returns with `?`.
FalliblePollCalls ==
    {"GetQueueStatus", "CreateThreadpoolWait", "GetInputEvent", "SetWaitForQueueAttach"}

\* One of them has failed.
PollCallFailed ==
    \E i \in 1..Len(oslog) : oslog[i][1] \in FalliblePollCalls /\ ~oslog[i][2]

\* C20: the probe, the creation of the pool wait, the acquisition of the input
\* event or the queue-attach arming failing in a first poll makes exactly that
\* poll return the error; from its return on the state word is NotPending, no
\* wait is armed, no callback has been queued, no waker is stored or invoked,
\* and the wait object the poll created has been closed.
C20_PollErrorUnarmed ==
    /\ PollCallFailed <=> pollResults = <<"error">>
    /\ LastResult = "error" =>
         /\ pollResults = <<"error">>
         /\ pollNo = 1
         /\ state = NotPending
         /\ ~waitRegistered
         /\ cbpc = "idle"
         /\ waker = 0
         /\ wakeLog = <<>>
         /\ ~wait /\ ~ptp_wait
         /\ waitObj = (IF CallsOk("CreateThreadpoolWait") = 1 THEN "closed" ELSE "none")
         /\ Calls("SetThreadpoolWait") = 0

C20_Witness ==
    /\ pollResults = <<"error">>
    /\ fpc = "idle"
    /\ Calls("GetInputEvent") = 1
    /\ CallsOk("GetInputEvent") = 0
    /\ waitObj = "closed"

(* ----------------------------- message loop ---------------------------- *)

\* The loop of tests/tokio.rs:
\*   loop { for msg in wait_for_messages(QS_ALLINPUT, MWMO_INPUTAVAILABLE)?.await? {
\*              if msg.message == WM_QUIT { return Ok(()) }  dispatch(msg) } }
\* The awaited future is dropped when the await completes, before the drain.
QS_ALLINPUT == 1279
MWMO_INPUTAVAILABLE == 4

\* WM_QUIT reaches the queue as a posted message.
QuitMessage == QS_POSTMESSAGE

\* Every resolved iteration drains at least one message.
MaxIterations == MaxPosts + 1

Range(s) == {s[i] : i \in 1..Len(s)}

QuitPosted == QuitMessage \in (Range(queue) \cup Range(yielded))

QuitYielded == QuitMessage \in Range(yielded)

\* An OS call of a poll failed or clear_wake_mask failed: the loop ends with
\* the error (or unwinds).
OsCallFailed == PollCallFailed \/ panicked

\* The task is woken: its future has not been polled yet, or the stored waker
\* was invoked since the last poll began.
AwaitWoken == pollNo = 0 \/ Len(wakeLog) > wakesAtPollStart

\* The next iteration (and the first one): wait_for_messages(..)? builds a new
\* future in the place of the dropped one. A callback of the dropped future
\* that is still inside wait_done now runs on the new future's shared state:
\* before its read of the waker it finds None there and the unwrap aborts the
\* process, or it has finished in time.
loop_next ==
    /\ ~crashed /\ ~panicked
    /\ IF fpc = "start"
       THEN UNCHANGED loopVars
       ELSE /\ fpc = "dropped"
            /\ LastResult = "ready"
            /\ iterDone
            /\ ~QuitYielded
            /\ iteration < MaxIterations
            /\ iteration' = iteration + 1
            /\ quitIter' = (IF quitIter = 0 /\ QuitPosted THEN iteration ELSE quitIter)
    /\ ValidArgs(QS_ALLINPUT, MWMO_INPUTAVAILABLE)
    /\ args' = <<QS_ALLINPUT, MWMO_INPUTAVAILABLE>>
    /\ queue_status_flags' = QS_ALLINPUT
    /\ wait_flags' = MWMO_INPUTAVAILABLE
    /\ fpc' = "idle"
    /\ input_event' = FALSE /\ ptp_wait' = FALSE /\ wait' = FALSE /\ cx' = 0
    /\ state' = NotPending /\ waker_in_use' = FALSE /\ waker' = 0 /\ sharedFreed' = FALSE
    /\ waitObj' = "none" /\ waitRegistered' = FALSE /\ cbpc' = "idle" /\ old_state' = "none"
    /\ IF cbpc \in {"c_spin", "c_wake"}
       THEN \E outcome \in {"finished", "abort"} : crashed' = (outcome = "abort")
       ELSE UNCHANGED crashed
    /\ oslog' = <<>> /\ wakeLog' = <<>>
    /\ pollNo' = 0 /\ pollResults' = <<>> /\ probed' = -1 /\ wakesAtPollStart' = 0
    /\ dropCas' = "none" /\ dropState' = "none"
    /\ postedAfterPending' = FALSE /\ everSignalled' = FALSE /\ signalledBeforeCas' = FALSE
    /\ yielded' = <<>> /\ iterDone' = FALSE /\ iterStart' = <<>>
    /\ swapInRepoll' = 0
    /\ UNCHANGED <<queue, wakeMask, inputEventSignalled, packetAssociated, posts, panicked>>

\* The executor polls the awaited future: when the task is woken, and possibly
\* at other times.
loop_poll ==
    /\ ~crashed
    /\ IF AwaitWoken THEN TRUE ELSE pollNo + 1 < MaxPolls
    /\ poll_load

\* The poll the executor owes a woken task.
AwaitPoll == AwaitWoken /\ loop_poll

\* The await completes (or unwinds): the future is dropped.
loop_drop ==
    /\ ~crashed
    /\ LastResult \in {"ready", "error", "panic"}
    /\ drop_cas

\* for msg in iterator: the loop body returns at WM_QUIT.
loop_drain ==
    /\ ~crashed /\ ~panicked
    /\ fpc = "dropped"
    /\ ~QuitYielded
    /\ iter_next

LoopOwnerStep ==
    /\ ~crashed
    /\ \/ poll_trylock \/ poll_store \/ poll_unlock
       \/ poll_probe \/ poll_create \/ poll_event \/ poll_attach
       \/ poll_install \/ poll_arm \/ poll_cas
       \/ poll_ready_event \/ poll_ready_wait
       \/ drop_input_event \/ drop_shared \/ drop_ptp_wait

LoopPoolStep == ~crashed /\ PoolStep

LoopNext ==
    \/ loop_next
    \/ PostMessage
    \/ loop_poll
    \/ loop_drop
    \/ loop_drain
    \/ LoopOwnerStep
    \/ LoopPoolStep

LoopSpec == Init /\ [][LoopNext]_vars

\* The pool runs its callbacks, the thread finishes the call it is in, and the
\* executor polls a woken task, drops the resolved future, drains the iterator
\* and goes round the loop. Nobody is obliged to post.
LoopFairSpec ==
    /\ LoopSpec
    /\ WF_vars(LoopPoolStep) /\ WF_vars(LoopOwnerStep)
    /\ WF_vars(AwaitPoll) /\ WF_vars(loop_drop) /\ WF_vars(loop_drain) /\ WF_vars(loop_next)

(* ------------------------------- C12 ----------------------------------- *)

\* C12: in the message loop, once a quit message has been posted, a drain
\* iterator eventually yields it (unless an OS call fails), and it does so in
\* the iteration running when it was posted or in the next one.
C12_QuitEventuallyYielded ==
    /\ QuitPosted ~> (QuitYielded \/ OsCallFailed)
    /\ [](quitIter > 0 => iteration <= quitIter + 1)

\* Apart from the abort of a callback that outlived its future, the loop does
\* yield the quit message.
C12_UnlessCallbackAborts ==
    /\ QuitPosted ~> (QuitYielded \/ OsCallFailed \/ crashed)
    /\ [](quitIter > 0 => iteration <= quitIter + 1)
    /\ [](fpc = "dropped" => cbpc \notin {"queued", "c_swap"})

(* ------------------------------- C21 ----------------------------------- *)

\* C21: whenever the state word is Pending, a waker is stored, the input
\* event is held with the composed word as wake mask, and the wait object is
\* held by the future, open, and was armed on the event (it is still
\* registered or its callback has been queued). The callback reaches its read
\* of the waker only after its swap observed Pending, so it finds a waker
\* there: the unwrap never fails.
C21_ArmedState ==
    /\ state = Pending =>
         /\ waker /= 0
         /\ input_event
         /\ CallsOk("GetInputEvent") = 1
         /\ wakeMask = make_dword(queue_status_flags, wait_flags)
         /\ ptp_wait /\ ~wait
         /\ waitObj = "open"
         /\ CallsOk("SetThreadpoolWait") = 1
         /\ (~waitRegistered => cbpc \in {"queued", "c_swap"})
         /\ ~sharedFreed
    /\ cbpc \in {"c_spin", "c_wake", "c_release"} => (old_state = Pending /\ waker /= 0)
    /\ cbpc /= "c_panic"

C21_Witness ==
    /\ cbpc = "c_wake"
    /\ old_state = Pending
    /\ waker = 2
    /\ ~sharedFreed
    /\ input_event /\ ptp_wait

(* ------------------------------- C22 ----------------------------------- *)

\* The poll thread holds waker_in_use: between its compare-exchange and its
\* store of false.
PollHoldsWaker == fpc \in {"p_store", "p_unlock"}

\* The callback holds waker_in_use: between its spin-acquire and its store of
\* false.
CallbackHoldsWaker == cbpc \in {"c_wake", "c_release"}

\* C22: the two sides never hold waker_in_use together, and while the shared
\* state is alive the flag is set exactly when one of them holds it. After the
\* arming the stored waker is written only by a poll that holds the flag, and
\* it is read and invoked only by a callback that holds it. Each side gives
\* the flag back after two steps of its own, each of which it can always
\* take, and a spinning callback eventually gets the flag.
C22_WakerMutualExclusion ==
    /\ [](~(PollHoldsWaker /\ CallbackHoldsWaker))
    /\ [](~sharedFreed => (waker_in_use <=> (PollHoldsWaker \/ CallbackHoldsWaker)))
    /\ [][/\ waker' /= waker =>
               \/ fpc = "p_install" /\ ~waitRegistered /\ cbpc = "idle"
               \/ fpc = "p_store" /\ waker_in_use /\ ~CallbackHoldsWaker
          /\ wakeLog' /= wakeLog =>
               /\ cbpc = "c_wake"
               /\ ~PollHoldsWaker
               /\ ~sharedFreed => waker_in_use
         ]_vars
    /\ [](fpc = "p_store" => ENABLED poll_store)
    /\ [](fpc = "p_unlock" => ENABLED poll_unlock)
    /\ [](cbpc = "c_wake" => ENABLED wait_done_wake)
    /\ [](cbpc = "c_release" => ENABLED wait_done_release)
    /\ [][/\ (fpc = "p_store" /\ fpc' /= fpc) => fpc' = "p_unlock"
          /\ (fpc = "p_unlock" /\ fpc' /= fpc) => (fpc' = "idle" /\ ~waker_in_use')
          /\ (cbpc = "c_wake" /\ cbpc' /= cbpc) =>
               (cbpc' = "c_release" \/ (sharedFreed /\ cbpc' = "c_fault"))
          /\ (cbpc = "c_release" /\ cbpc' /= cbpc) =>
               (cbpc' = "c_done" /\ (~sharedFreed => ~waker_in_use'))
         ]_vars
    /\ (cbpc = "c_spin") ~> (cbpc /= "c_spin")

C22_Witness ==
    /\ cbpc = "c_spin"
    /\ fpc = "p_store"
    /\ waker_in_use
    /\ state = Ready

(* ------------------------------- C23 ----------------------------------- *)

\* The first poll returned pending.
ReturnedPending == Len(pollResults) >= 1 /\ pollResults[1] = "pending"

\* C23 (as claimed): when the callback set Ready between a re-poll's load of
\* the state and its replacement of the waker, then by the time that poll has
\* returned the wake has been issued, on the waker stored before that poll.
C23_WakeIssuedDuringRepoll ==
    (swapInRepoll > 0 /\ fpc = "idle") =>
        (Len(wakeLog) >= 1 /\ wakeLog[1] < swapInRepoll)

\* C23 (amended): once the first poll has returned pending and the input event
\* has been signalled, a waker is invoked unless the drop begins; the waker is
\* one a poll stored, and a poll that returned pending began before the
\* invocation. When the callback set Ready between a re-poll's load and its
\* store of the waker, that poll still returns pending, the waker invoked is
\* the prior or the new one, and a poll that begins with Ready set resolves.
C23_NoLostWakeup ==
    /\ (ReturnedPending /\ everSignalled) ~> (wakeLog /= <<>> \/ DropBegun)
    /\ []((LastResult = "pending" /\ ~PollInProgress) => wakesAtPollStart = 0)
    /\ [](swapInRepoll > 0 =>
            /\ swapInRepoll = pollNo /\ pollNo >= 2
            /\ state = Ready /\ old_state = Pending
            /\ ~PollInProgress => LastResult = "pending"
            /\ \A i \in 1..Len(wakeLog) : wakeLog[i] \in {waker, swapInRepoll - 1, swapInRepoll})
    /\ [][/\ (fpc = "idle" /\ pollNo' /= pollNo /\ state = Ready) => fpc' = "p_ready_event"
          /\ (fpc = "p_ready_event" /\ fpc' /= fpc) =>
               (fpc' = "p_ready_wait" \/ pollResults' = Append(pollResults, "panic"))
          /\ (fpc = "p_ready_wait" /\ fpc' /= fpc) =>
               pollResults' = Append(pollResults, "ready")
         ]_vars

C23_Witness ==
    /\ swapInRepoll = 2
    /\ fpc = "idle"
    /\ pollResults = <<"pending", "pending">>
    /\ waker = 2
    /\ wakeLog = <<2>>
    /\ ~DropBegun

====
